---- MODULE Spec2Model ----
(***************************************************************************)
(* Model of jira_sd_extract_automatic_update.py: the paginated JQL         *)
(* extraction (jira_collate), the nested-column expansion (expand_column), *)
(* the custom-field renaming (rename_custom_fields) and the ETL entry      *)
(* point (lambda_handler).                                                 *)
(*                                                                         *)
(* Strings that the code inspects (column names) are sequences of lexical  *)
(* tokens: "fields", ".", "customfield", "_", runs of digits, and other    *)
(* words.  'a' + '.' + 'b' is sequence concatenation, `x in s` is          *)
(* contiguous-subsequence search and the regular expression                *)
(* customfield_[0-9]* is matched over the tokens.                          *)
(*                                                                         *)
(* JSON values are tagged: Null, a scalar, an object (an ordered sequence  *)
(* of <<key, value>> pairs, as a Python dict) or a list.                   *)
(***************************************************************************)
EXTENDS Integers, Sequences, FiniteSets, TLC

VARIABLES
    mode,            \* which entry point is being exercised
    pc,              \* position inside the entry point
    source,          \* the tickets currently matching the query at the server
    changes,         \* how many times the match set changed during the run
    num_issues,      \* jira_collate: total reported by the limit=0 query
    total_pages,     \* jira_collate: number of page requests planned
    query_number,    \* jira_collate: loop index
    list_of_issues,  \* jira_collate: collated tickets
    requests,        \* log of the page requests issued (start, limit)
    df,              \* the DataFrame being built / the function's input
    out,             \* result of the pure function under test (or None)
    arg,             \* arguments of the pure function under test
    errors,          \* columns whose expansion raised and was caught
    field_list,      \* custom-field lookup fetched from the server
    lookup,          \* what the server's custom-field list contains
    SQL_USER,        \* environment variable DB_USER (Null when not set)
    SQL_PASS,        \* environment variable DB_PASS (Null when not set)
    fail_step,       \* the step whose exception ended the run ("" if none)
    engine,          \* "none" | "acquired" | "disposed"
    sink,            \* contents of table jira_sd in the database
    writes,          \* number of table-replace operations performed
    result           \* lambda_handler return value

vars == <<mode, SQL_USER, SQL_PASS, pc, source, changes, num_issues, total_pages, query_number,
          list_of_issues, requests, df, out, arg, errors, field_list, lookup,
          fail_step, engine, sink, writes, result>>

---------------------------------------------------------------------------
(* Bounds of the model *)
MaxPages == 3
MaxDelta == 2
MaxChanges == 1
MaxRows == 2
MaxTickets == 2
MaxCols == 2

---------------------------------------------------------------------------
(* JSON values *)
Null == [t |-> "null"]
Scalar(s) == [t |-> "scalar", s |-> s]
Obj(pairs) == [t |-> "obj", o |-> pairs]
List(items) == [t |-> "list", l |-> items]

Err(kind) == [err |-> kind]
IsErr(x) == "err" \in DOMAIN x

NoValue == [none |-> TRUE]

(* Generic sequence helpers *)
Range(s) == {s[i] : i \in 1..Len(s)}
IndexOf(s, x) == IF \E i \in 1..Len(s) : s[i] = x
                 THEN CHOOSE i \in 1..Len(s) : s[i] = x /\ \A j \in 1..(i-1) : s[j] # x
                 ELSE 0
Concat(ss) ==
    LET F[i \in 0..Len(ss)] == IF i = 0 THEN <<>> ELSE F[i-1] \o ss[i]
    IN F[Len(ss)]
SelectIdx(s, keep) ==
    LET F[i \in 0..Len(s)] ==
            IF i = 0 THEN <<>>
            ELSE IF i \in keep THEN Append(F[i-1], s[i]) ELSE F[i-1]
    IN F[Len(s)]
Dedup(s) == SelectIdx(s, {i \in 1..Len(s) : \A j \in 1..(i-1) : s[j] # s[i]})
Min(a, b) == IF a < b THEN a ELSE b

(* Column names *)
Dot == <<".">>
Sub(path, key) == path \o Dot \o key

---------------------------------------------------------------------------
(* pandas.json_normalize on a list of dicts: nested dicts are flattened    *)
(* into dotted keys, lists and scalars are kept as cell values, the        *)
(* columns are the keys in order of first appearance and a key a record    *)
(* lacks is NaN (Null) in its row.                                         *)
RECURSIVE FlattenNested(_, _)
FlattenNested(pairs, prefix) ==
    IF pairs = <<>> THEN <<>>
    ELSE LET k == pairs[1][1]
             v == pairs[1][2]
         IN (IF v.t = "obj" THEN FlattenNested(v.o, prefix \o k \o Dot)
                            ELSE << <<prefix \o k, v>> >>)
            \o FlattenNested(Tail(pairs), prefix)

FlattenTop(pairs) ==
    SelectIdx(pairs, {i \in 1..Len(pairs) : pairs[i][2].t # "obj"})
    \o FlattenNested(SelectIdx(pairs, {i \in 1..Len(pairs) : pairs[i][2].t = "obj"}), <<>>)

ValueAt(rec, path) ==
    IF \E i \in 1..Len(rec) : rec[i][1] = path
    THEN rec[CHOOSE i \in 1..Len(rec) : rec[i][1] = path][2]
    ELSE Null

json_normalize(data) ==
    LET recs == [i \in 1..Len(data) |-> FlattenTop(data[i].o)]
        keys == [i \in 1..Len(data) |->
                    [j \in 1..Len(recs[i]) |-> recs[i][j][1]]]
        columns == Dedup(Concat(keys))
    IN [columns |-> columns,
        data |-> [i \in 1..Len(data) |->
                    [j \in 1..Len(columns) |-> ValueAt(recs[i], columns[j])]]]

EmptyFrame == [columns |-> <<>>, data |-> <<>>]

(* df[column] for one row: position of the column, 0 when it is missing *)
ColIndex(frame, column) == IndexOf(frame.columns, column)

DropColumn(frame, column) ==
    [columns |-> SelectIdx(frame.columns, {j \in 1..Len(frame.columns) : frame.columns[j] # column}),
     data |-> [i \in 1..Len(frame.data) |->
                 SelectIdx(frame.data[i], {j \in 1..Len(frame.data[i]) : frame.columns[j] # column})]]

---------------------------------------------------------------------------
(* expand_column *)

(* Body of the loop for one cell: the values appended to `expansion`,     *)
(* in the order of requested_fields, or the exception raised.             *)
ExpandCell(cell, requested_fields) ==
    IF cell.t = "list" /\ Len(cell.l) > 0
    THEN LET expanded == json_normalize(cell.l)
         IN IF \E f \in Range(requested_fields) : f \notin Range(expanded.columns)
            THEN Err("KeyError")
            ELSE [ok |-> [j \in 1..Len(requested_fields) |->
                            expanded.data[Len(expanded.data)]
                                         [IndexOf(expanded.columns, requested_fields[j])]]]
    ELSE [ok |-> [j \in 1..Len(requested_fields) |-> Null]]

(* variant: every entry of a multi-entry cell is appended (the behaviour   *)
(* before the "only take last entry" fix), so the expansion has more rows  *)
(* than the table and concat pads the table with NaN rows                  *)
expand_column_all_entries(in_df, column, requested_fields, drop) ==
    LET n == Len(in_df.data)
        c == ColIndex(in_df, column)
        nulls == [j \in 1..Len(requested_fields) |-> Null]
        entries(cell) ==
            IF cell.t = "list" /\ Len(cell.l) > 0
            THEN LET expanded == json_normalize(cell.l)
                 IN IF \E f \in Range(requested_fields) :
                           f \notin Range(expanded.columns)
                    THEN Err("KeyError")
                    ELSE [ok |-> [k \in 1..Len(expanded.data) |->
                                    [j \in 1..Len(requested_fields) |->
                                        expanded.data[k][IndexOf(expanded.columns,
                                                                 requested_fields[j])]]]]
            ELSE [ok |-> <<nulls>>]
        rowres == [i \in 1..n |->
                     IF c = 0 THEN Err("KeyError") ELSE entries(in_df.data[i][c])]
        appended == Concat([i \in 1..n |-> rowres[i].ok])
        new_columns == [j \in 1..Len(requested_fields) |->
                          Sub(column, requested_fields[j])]
        concat == [columns |-> in_df.columns \o (IF n = 0 THEN <<>> ELSE new_columns),
                   data |-> [i \in 1..Len(appended) |->
                               (IF i <= n THEN in_df.data[i]
                                ELSE [j \in 1..Len(in_df.columns) |-> Null])
                               \o appended[i]]]
    IN IF \E i \in 1..n : IsErr(rowres[i]) THEN Err("KeyError")
       ELSE IF drop
            THEN (IF c = 0 THEN Err("KeyError") ELSE DropColumn(concat, column))
            ELSE concat

(* variant: the final concat renumbers the column labels (ignore_index)    *)
expand_column_renumbered(in_df, column, requested_fields, drop) ==
    LET n == Len(in_df.data)
        c == ColIndex(in_df, column)
        rowres == [i \in 1..n |->
                     IF c = 0 THEN Err("KeyError")
                     ELSE ExpandCell(in_df.data[i][c], requested_fields)]
        width == Len(in_df.columns) + (IF n = 0 THEN 0 ELSE Len(requested_fields))
        concat == [columns |-> [j \in 1..width |-> <<ToString(j - 1)>>],
                   data |-> [i \in 1..n |-> in_df.data[i] \o rowres[i].ok]]
    IN IF \E i \in 1..n : IsErr(rowres[i]) THEN Err("KeyError")
       ELSE IF drop
            THEN (IF column \notin Range(concat.columns) THEN Err("KeyError")
                  ELSE DropColumn(concat, column))
            ELSE concat

expand_column(in_df, column, requested_fields, drop) ==
    LET n == Len(in_df.data)
        c == ColIndex(in_df, column)
        rowres == [i \in 1..n |->
                     IF c = 0 THEN Err("KeyError")
                     ELSE ExpandCell(in_df.data[i][c], requested_fields)]
        old_columns == Dedup(Concat([i \in 1..n |-> requested_fields]))
        new_columns == [j \in 1..Len(old_columns) |-> Sub(column, old_columns[j])]
        concat == [columns |-> in_df.columns \o new_columns,
                   data |-> [i \in 1..n |-> in_df.data[i] \o rowres[i].ok]]
    IN IF \E i \in 1..n : IsErr(rowres[i]) THEN Err("KeyError")
       ELSE IF drop
            THEN (IF c = 0 THEN Err("KeyError") ELSE DropColumn(concat, column))
            ELSE concat

---------------------------------------------------------------------------
(* rename_custom_fields *)
DigitRuns == {"10101", "10102", "13031", "12120", "12985", "10420", "13030",
              "77777"}

HasSub(s, pat) ==
    \E i \in 1..(Len(s) - Len(pat) + 1) : SubSeq(s, i, i + Len(pat) - 1) = pat

\* re.search of the pattern customfield_[0-9]* in s: position of the first
\* match, 0 if there is none
MatchStart(s) ==
    LET hit(i) == s[i] = "customfield" /\ i + 1 <= Len(s) /\ s[i+1] = "_"
    IN IF \E i \in 1..Len(s) : hit(i)
       THEN CHOOSE i \in 1..Len(s) : hit(i) /\ \A j \in 1..(i-1) : ~hit(j)
       ELSE 0

(* last token of the (greedy) match starting at i *)
MatchEnd(s, i) ==
    CHOOSE j \in (i+1)..Len(s) :
        /\ \A k \in (i+2)..j : s[k] \in DigitRuns
        /\ (j = Len(s) \/ s[j+1] \notin DigitRuns)

\* re.sub of the pattern customfield_[0-9]* by repl in s.  repl is a
\* replacement template: it is parsed before any matching, a backslash
\* escape that is neither a group reference nor a character escape is an
\* error, \1 and \g<0> stand for the matched text (the pattern's only group
\* spans the whole match) and \n for a newline.  Every match is replaced.
BadEscapes == {"\\D", "\\S"}
GroupRefs == {"\\1", "\\g<0>"}

TemplateOk(repl) == \A k \in 1..Len(repl) : repl[k] \notin BadEscapes

ExpandTemplate(repl, matched) ==
    Concat([k \in 1..Len(repl) |->
               IF repl[k] \in GroupRefs THEN matched
               ELSE IF repl[k] = "\\n" THEN <<"\n">>
               ELSE <<repl[k]>>])

RECURSIVE ReplaceAll(_, _)
ReplaceAll(s, repl) ==
    LET i == MatchStart(s)
    IN IF i = 0 THEN s
       ELSE SubSeq(s, 1, i - 1)
            \o ExpandTemplate(repl, SubSeq(s, i, MatchEnd(s, i)))
            \o ReplaceAll(SubSeq(s, MatchEnd(s, i) + 1, Len(s)), repl)

ReSub(s, repl) ==
    IF TemplateOk(repl) THEN [ok |-> ReplaceAll(s, repl)] ELSE Err("re.error")

RenameColumn(column, fl) ==
    IF HasSub(column, <<"fields", ".", "customfield">>)
    THEN LET i == MatchStart(column)
         IN IF i = 0 THEN Err("AttributeError")
            ELSE LET old_field == SubSeq(column, i, MatchEnd(column, i))
                 IN IF old_field \notin DOMAIN fl THEN Err("KeyError")
                    ELSE ReSub(column, fl[old_field])
    ELSE [ok |-> column]

(* DataFrame.rename(columns=mapping) where mapping = dict(zip(old, new)):  *)
(* a later pair for the same old name overwrites an earlier one.           *)
RenameByZip(frame, old, new) ==
    LET last(c) == CHOOSE j \in 1..Len(old) :
                       old[j] = c /\ \A k \in (j+1)..Len(old) : old[k] # c
    IN [columns |-> [j \in 1..Len(frame.columns) |->
                        IF frame.columns[j] \in Range(old)
                        THEN new[last(frame.columns[j])]
                        ELSE frame.columns[j]],
        data |-> frame.data]

rename_custom_fields(flattened_df, fl) ==
    LET old_columns == flattened_df.columns
        res == [j \in 1..Len(old_columns) |-> RenameColumn(old_columns[j], fl)]
    IN IF \E j \in 1..Len(res) : IsErr(res[j])
       THEN res[CHOOSE j \in 1..Len(res) :
                    IsErr(res[j]) /\ \A k \in 1..(j-1) : ~IsErr(res[k])]
       ELSE RenameByZip(flattened_df, old_columns,
                        [j \in 1..Len(res) |-> res[j].ok])

(* get_custom_field_names: dict built from the server's list of fields *)
get_custom_field_names(custom_fields_list) ==
    LET ids == {custom_fields_list[i].id : i \in 1..Len(custom_fields_list)}
        last(id) == CHOOSE i \in 1..Len(custom_fields_list) :
                        /\ custom_fields_list[i].id = id
                        /\ \A k \in (i+1)..Len(custom_fields_list) :
                               custom_fields_list[k].id # id
    IN [id \in ids |-> custom_fields_list[last(id)].name]

---------------------------------------------------------------------------
(* Configuration of the run (module level of the script) *)
issues_per_query == 1000

K(word) == <<word>>
CF(digits) == <<"customfield", "_", digits>>
Path(segments) ==
    LET F[i \in 1..Len(segments)] ==
            IF i = 1 THEN segments[1] ELSE F[i-1] \o Dot \o segments[i]
    IN F[Len(segments)]
Fields(segments) == Path(<<K("fields")>> \o segments)

sel_cols == <<
    K("key"),
    Fields(<<K("summary")>>),
    Fields(<<K("issuetype"), K("name")>>),
    Fields(<<K("created")>>),
    Fields(<<K("NGIS General Enquiry"), K("ongoingCycle"), K("breached")>>),
    Fields(<<K("reporter"), K("name")>>),
    Fields(<<K("priority"), K("name")>>),
    Fields(<<K("Tribe/Squad"), K("value")>>),
    Fields(<<K("Tribe/Squad"), K("child"), K("value")>>),
    Fields(<<K("assignee"), K("name")>>),
    Fields(<<K("updated")>>),
    Fields(<<K("status"), K("name")>>),
    Fields(<<K("status"), K("statusCategory"), K("name")>>),
    Fields(<<K("First Assignee"), K("name")>>),
    Fields(<<K("Time to resolution"), K("ongoingCycle"), K("breached")>>),
    Fields(<<K("Time to first response"), K("ongoingCycle"), K("breached")>>),
    Fields(<<K("Reason for Pending"), K("value")>>),
    Fields(<<K("Time to resolution"), K("completedCycles"), K("breached")>>),
    Fields(<<K("Time to resolution"), K("completedCycles"), K("goalDuration"), K("millis")>>),
    Fields(<<K("Time to resolution"), K("completedCycles"), K("elapsedTime"), K("millis")>>),
    Fields(<<K("Time to first response"), K("completedCycles"), K("breached")>>),
    Fields(<<K("Time to first response"), K("completedCycles"), K("goalDuration"), K("millis")>>),
    Fields(<<K("Time to first response"), K("completedCycles"), K("elapsedTime"), K("millis")>>),
    Fields(<<K("First Line Fix"), K("value")>>),
    Fields(<<K("NGIS General Enquiry"), K("completedCycles"), K("breached")>>),
    Fields(<<K("NGIS General Enquiry"), K("completedCycles"), K("goalDuration"), K("millis")>>),
    Fields(<<K("NGIS General Enquiry"), K("completedCycles"), K("elapsedTime"), K("millis")>> ) >>

pretty_keys == <<
    K("key"),
    Fields(<<K("summary")>>),
    Fields(<<K("issuetype"), K("name")>>),
    Fields(<<K("created")>>),
    Fields(<<K("NGIS General Enquiry"), K("ongoingCycle"), K("breached")>>),
    Fields(<<K("reporter"), K("name")>>),
    Fields(<<K("priority"), K("name")>>),
    Fields(<<K("Tribe/Squad"), K("value")>>),
    Fields(<<K("Tribe/Squad"), K("child"), K("value")>>),
    Fields(<<K("assignee"), K("name")>>),
    Fields(<<K("updated")>>),
    Fields(<<K("status"), K("name")>>),
    Fields(<<K("status"), K("statusCategory"), K("name")>>),
    Fields(<<K("First Assignee"), K("name")>> ) >>

pretty_values == <<
    K("Ticket Number"),
    K("Summary"),
    K("Issue Type"),
    K("Date Created"),
    Fields(<<K("NGIS General Enquiry"), K("ongoingCycle"), K("breached")>>),
    K("Reporter"),
    K("Priority"),
    K("Tribe"),
    K("Squad"),
    K("Assignee"),
    K("Updated Date"),
    K("Status"),
    K("Status Category"),
    K("First Assignee") >>

sla_fields == <<K("breached"),
                Path(<<K("goalDuration"), K("millis")>>),
                Path(<<K("elapsedTime"), K("millis")>>)>>

(* df[sel_cols]: KeyError when a listed column is missing *)
(* variant: columns missing from the frame are skipped silently *)
SelectColumns_available(frame, cols) ==
    LET present == SelectIdx(cols, {j \in 1..Len(cols) : cols[j] \in Range(frame.columns)})
    IN [columns |-> present,
        data |-> [i \in 1..Len(frame.data) |->
                    [j \in 1..Len(present) |->
                        frame.data[i][ColIndex(frame, present[j])]]]]

SelectColumns(frame, cols) ==
    IF \E j \in 1..Len(cols) : cols[j] \notin Range(frame.columns)
    THEN Err("KeyError")
    ELSE [columns |-> cols,
          data |-> [i \in 1..Len(frame.data) |->
                      [j \in 1..Len(cols) |->
                          frame.data[i][ColIndex(frame, cols[j])]]]]

---------------------------------------------------------------------------
(* The ticket source: jira_instance.jql(query, limit, start) *)
Jql(tickets, limit, start) ==
    [total |-> Len(tickets),
     issues |-> SubSeq(tickets, start + 1, Min(start + limit, Len(tickets)))]

TotalPages(n) == (n \div issues_per_query) + 1

PageStart_unscaled(page_index) == page_index
PageStart(page_index) == page_index * issues_per_query

(* jira_collate, line 163: the limit=0 query, and the page count *)
CountQuery ==
    /\ pc = "count"
    /\ \/ /\ num_issues' = Jql(source, 0, 0).total
          /\ total_pages' = TotalPages(num_issues')
          /\ query_number' = 0
          /\ list_of_issues' = <<>>
          /\ pc' = IF total_pages' > 0 THEN "page" ELSE "collated"
          /\ UNCHANGED fail_step
       \/ /\ pc' = "failed"
          /\ fail_step' = "source"
          /\ UNCHANGED <<num_issues, total_pages, query_number, list_of_issues>>
    /\ UNCHANGED <<mode, SQL_USER, SQL_PASS, source, changes, requests, df, out, arg, errors,
                   field_list, lookup, engine, sink, writes, result>>

(* jira_collate, lines 169-177: one iteration of the page loop *)
PageRequest ==
    /\ pc = "page"
    /\ \/ /\ LET start == PageStart(query_number)
                 results == Jql(source, issues_per_query, start)
             IN /\ requests' = Append(requests,
                                      [start |-> start, limit |-> issues_per_query,
                                       issues |-> results.issues])
                /\ list_of_issues' = list_of_issues \o results.issues
          /\ query_number' = query_number + 1
          /\ pc' = IF query_number + 1 < total_pages THEN "page" ELSE "collated"
          /\ UNCHANGED fail_step
       \/ /\ pc' = "failed"
          /\ fail_step' = "source"
          /\ UNCHANGED <<requests, list_of_issues, query_number>>
    /\ UNCHANGED <<mode, SQL_USER, SQL_PASS, source, changes, num_issues, total_pages, df, out, arg,
                   errors, field_list, lookup, engine, sink, writes, result>>

(* The server's match set changes while the run is in progress: a ticket   *)
(* is created, or the oldest one leaves the query's time window.           *)
SourceChange ==
    /\ mode = "collate"
    /\ pc \in {"count", "page"}
    /\ changes < MaxChanges
    /\ \/ source' = Append(source, -(changes + 1))
       \/ Len(source) > 0 /\ source' = Tail(source)
    /\ changes' = changes + 1
    /\ UNCHANGED <<mode, SQL_USER, SQL_PASS, pc, num_issues, total_pages, query_number,
                   list_of_issues, requests, df, out, arg, errors, field_list,
                   lookup, fail_step, engine, sink, writes, result>>

Totals ==
    {p * issues_per_query + d : p \in 0..(MaxPages - 1), d \in 0..MaxDelta}
    \cup {p * issues_per_query - d : p \in 1..(MaxPages - 1), d \in 1..MaxDelta}
    \cup {p * issues_per_query + 500 : p \in 0..(MaxPages - 1)}

Credentials ==
    {<<Scalar(<<"etl">>), Scalar(<<"p", "@", "ss">>)>>,
     <<Scalar(<<"etl">>), Null>>,
     <<Null, Scalar(<<"p", "@", "ss">>)>>}

Idle ==
    /\ changes = 0
    /\ num_issues = 0
    /\ total_pages = 0
    /\ query_number = 0
    /\ list_of_issues = <<>>
    /\ requests = <<>>
    /\ out = NoValue
    /\ arg = NoValue
    /\ errors = <<>>
    /\ field_list = <<>>
    /\ fail_step = ""
    /\ engine = "none"
    /\ writes = 0
    /\ result = NoValue

InitCollate ==
    /\ SQL_USER = Null
    /\ SQL_PASS = Null
    /\ mode = "collate"
    /\ pc = "count"
    /\ \E total \in Totals : source = [i \in 1..total |-> i]
    /\ df = EmptyFrame
    /\ lookup = <<>>
    /\ sink = EmptyFrame
    /\ Idle

NextCollate == CountQuery \/ PageRequest \/ SourceChange

SpecCollate == InitCollate /\ [][NextCollate]_vars

---------------------------------------------------------------------------
(* Pager claims (SpecCollate) *)
CeilDiv(n, d) == (n + d - 1) \div d

\* C1: for every total T reported by the count query, jira_collate issues
\* exactly ceil(T / 1000) page requests (none for T = 0, one for T = 1000).
C1_PageCountIsCeil ==
    pc = "collated" => Len(requests) = CeilDiv(num_issues, issues_per_query)

\* C2: the page requests are issued with offset = page_index * 1000 for page
\* indexes 0, 1, 2, ... in that order, the collated list is the concatenation
\* of the pages in request order, and when the match set did not change
\* during the run the collated list is the match set, each ticket once, in
\* the source's order.
C2_PagesInOrderAndComplete ==
    /\ \A i \in 1..Len(requests) :
          /\ requests[i].start = (i - 1) * 1000
          /\ requests[i].limit = 1000
    /\ list_of_issues = Concat([i \in 1..Len(requests) |-> requests[i].issues])
    /\ (pc = "collated" /\ changes = 0) => list_of_issues = source

C2_Witness ==
    /\ pc = "collated"
    /\ changes = 0
    /\ Len(source) = 1500
    /\ Len(requests) = 2
    /\ requests[2].start = 1000
    /\ Len(list_of_issues) = 1500

---------------------------------------------------------------------------
(* Tickets as the server returns them (the fields of jira_fields that the  *)
(* extract uses).  An SLA field is null when the SLA does not apply to the *)
(* ticket; otherwise it has the completed cycles and, while the clock is   *)
(* running, the ongoing cycle.                                             *)
Named(n) == Obj(<< <<K("name"), Scalar(n)>> >>)
Valued(v) == Obj(<< <<K("value"), Scalar(v)>> >>)
Millis(m) == Obj(<< <<K("millis"), Scalar(m)>> >>)
Cycle(b, g, e) ==
    Obj(<< <<K("breached"), Scalar(b)>>,
           <<K("goalDuration"), Millis(g)>>,
           <<K("elapsedTime"), Millis(e)>> >>)
CycleNoElapsed(b, g) ==
    Obj(<< <<K("breached"), Scalar(b)>>,
           <<K("goalDuration"), Millis(g)>> >>)
SlaClosed(cycles) == Obj(<< <<K("completedCycles"), List(cycles)>> >>)
SlaRunning(cycles) ==
    Obj(<< <<K("completedCycles"), List(cycles)>>,
           <<K("ongoingCycle"), Obj(<< <<K("breached"), Scalar("false")>> >>)>> >>)

TicketShapes == {"resolved", "open", "no_ngis", "malformed"}

MakeTicket(shape, n) ==
    LET resolution ==
            CASE shape = "resolved" ->
                     SlaClosed(<<Cycle("true", "7200", "9000"),
                                 Cycle("false", "7200", "100")>>)
              [] shape = "malformed" ->
                     SlaRunning(<<CycleNoElapsed("false", "7200")>>)
              [] OTHER -> SlaRunning(<<>>)
        response ==
            IF shape = "resolved"
            THEN SlaClosed(<<Cycle("false", "3600", "60")>>)
            ELSE SlaRunning(<<>>)
        enquiry ==
            CASE shape = "resolved" -> SlaClosed(<<Cycle("false", "1800", "30")>>)
              [] shape = "no_ngis" -> Null
              [] OTHER -> SlaRunning(<<>>)
        first_line_fix ==
            IF shape = "resolved" THEN List(<<Valued("Yes")>>) ELSE Null
    IN Obj(<<
        <<K("id"), Scalar(n)>>,
        <<K("key"), Scalar(n)>>,
        <<K("fields"), Obj(<<
            <<K("issuetype"), Named("Incident")>>,
            <<K("status"), Obj(<< <<K("name"), Scalar(shape)>>,
                                  <<K("statusCategory"), Named("cat")>> >>)>>,
            <<K("summary"), Scalar("text")>>,
            <<K("priority"), Named("P3")>>,
            <<K("reporter"), Named("anne")>>,
            <<K("assignee"), Named("bob")>>,
            <<K("created"), Scalar("2021-10-01")>>,
            <<K("updated"), Scalar("2021-10-02")>>,
            <<K("resolved"), Null>>,
            <<CF("12985"), Obj(<< <<K("value"), Scalar("tribe")>>,
                                  <<K("child"), Valued("squad")>> >>)>>,
            <<CF("10101"), resolution>>,
            <<CF("10102"), response>>,
            <<CF("13030"), Named("carl")>>,
            <<CF("13031"), first_line_fix>>,
            <<CF("10420"), Valued("waiting")>>,
            <<CF("12120"), enquiry>> >>)>> >>)

FieldEntry(digits, name) == [id |-> CF(digits), name |-> K(name)]

LookupFull == <<
    FieldEntry("12985", "Tribe/Squad"),
    FieldEntry("10101", "Time to resolution"),
    FieldEntry("10102", "Time to first response"),
    FieldEntry("13030", "First Assignee"),
    FieldEntry("13031", "First Line Fix"),
    FieldEntry("10420", "Reason for Pending"),
    FieldEntry("12120", "NGIS General Enquiry") >>

(* a server on which one of the custom fields has been deleted *)
LookupStale == SubSeq(LookupFull, 1, 5) \o <<LookupFull[7]>>

LookupPool == {LookupFull, LookupStale}

(* servers on which a field's display name contains a backslash *)
Retitled(digits, name) ==
    [k \in 1..Len(LookupFull) |->
        IF LookupFull[k].id = CF(digits)
        THEN [id |-> CF(digits), name |-> name]
        ELSE LookupFull[k]]
LookupBackref == Retitled("10101", <<"Time", "\\1">>)
LookupEscape == Retitled("10101", <<"R", "\\D">>)

RenamePool == LookupPool \cup {LookupBackref, LookupEscape}

StaleTable == [columns |-> <<K("index"), K("old")>>,
               data |-> << <<Scalar("0"), Scalar("x")>> >>]

---------------------------------------------------------------------------
(* lambda_handler *)

(* line 275 *)
Normalize ==
    /\ mode = "handler"
    /\ pc = "collated"
    /\ df' = json_normalize(list_of_issues)
    /\ pc' = "expand1"
    /\ UNCHANGED <<mode, SQL_USER, SQL_PASS, source, changes, num_issues, total_pages, query_number,
                   list_of_issues, requests, out, arg, errors, field_list,
                   lookup, fail_step, engine, sink, writes, result>>

(* one try/except block around expand_column *)
TryExpand(here, next, column, requested_fields) ==
    /\ pc = here
    /\ LET r == expand_column(df, column, requested_fields, TRUE)
       IN IF IsErr(r)
          THEN /\ errors' = Append(errors, column)
               /\ UNCHANGED df
          ELSE /\ df' = r
               /\ UNCHANGED errors
    /\ pc' = next
    /\ UNCHANGED <<mode, SQL_USER, SQL_PASS, source, changes, num_issues, total_pages, query_number,
                   list_of_issues, requests, out, arg, field_list, lookup,
                   fail_step, engine, sink, writes, result>>

(* lines 279-287 *)
ExpandTimeToResolution ==
    TryExpand("expand1", "expand2",
              Fields(<<CF("10101"), K("completedCycles")>>), sla_fields)

(* lines 290-298 *)
ExpandTimeToFirstResponse ==
    TryExpand("expand2", "expand3",
              Fields(<<CF("10102"), K("completedCycles")>>), sla_fields)

(* lines 301-307 *)
ExpandFirstLineFix ==
    TryExpand("expand3", "expand4", Fields(<<CF("13031")>>), <<K("value")>>)

(* lines 310-319 *)
ExpandGeneralEnquiry ==
    TryExpand("expand4", "lookup",
              Fields(<<CF("12120"), K("completedCycles")>>), sla_fields)

(* line 322 *)
GetCustomFieldNames ==
    /\ pc = "lookup"
    /\ \/ /\ field_list' = get_custom_field_names(lookup)
          /\ pc' = "rename"
          /\ UNCHANGED fail_step
       \/ /\ pc' = "failed"
          /\ fail_step' = "source"
          /\ UNCHANGED field_list
    /\ UNCHANGED <<mode, SQL_USER, SQL_PASS, source, changes, num_issues, total_pages, query_number,
                   list_of_issues, requests, df, out, arg, errors, lookup,
                   engine, sink, writes, result>>

(* line 325 *)
ApplyCustomFieldNames ==
    /\ mode = "handler"
    /\ pc = "rename"
    /\ LET r == rename_custom_fields(df, field_list)
       IN IF IsErr(r)
          THEN /\ pc' = "failed"
               /\ fail_step' = "rename"
               /\ UNCHANGED df
          ELSE /\ df' = r
               /\ pc' = "project"
               /\ UNCHANGED fail_step
    /\ UNCHANGED <<mode, SQL_USER, SQL_PASS, source, changes, num_issues, total_pages, query_number,
                   list_of_issues, requests, out, arg, errors, field_list,
                   lookup, engine, sink, writes, result>>

(* lines 328-329 *)
Project ==
    /\ pc = "project"
    /\ LET r == SelectColumns(df, sel_cols)
       IN IF IsErr(r)
          THEN /\ pc' = "failed"
               /\ fail_step' = "project"
               /\ UNCHANGED df
          ELSE /\ df' = RenameByZip(r, pretty_keys, pretty_values)
               /\ pc' = "engine"
               /\ UNCHANGED fail_step
    /\ UNCHANGED <<mode, SQL_USER, SQL_PASS, source, changes, num_issues, total_pages, query_number,
                   list_of_issues, requests, out, arg, errors, field_list,
                   lookup, engine, sink, writes, result>>

(* urllib.parse.quote_plus: None is rejected, reserved characters are     *)
(* percent-encoded and a space becomes a plus sign                         *)
QuoteChar(ch) ==
    CASE ch = "@" -> "%40"
      [] ch = ":" -> "%3A"
      [] ch = "/" -> "%2F"
      [] ch = " " -> "+"
      [] OTHER -> ch
quote_plus(value) ==
    IF value.t = "null" THEN Err("TypeError")
    ELSE [ok |-> [k \in 1..Len(value.s) |-> QuoteChar(value.s[k])]]

(* lines 332-339: quoting a credential that is not set raises, and so can  *)
(* create_engine (driver not installed); either ends the run before an     *)
(* engine exists                                                           *)
CreateEngine ==
    /\ pc = "engine"
    /\ LET password_parsed == quote_plus(SQL_PASS)
           username_parsed == quote_plus(SQL_USER)
       IN \/ /\ ~IsErr(password_parsed)
             /\ ~IsErr(username_parsed)
             /\ engine' = "acquired"
             /\ pc' = "to_sql"
             /\ UNCHANGED fail_step
          \/ /\ pc' = "failed"
             /\ fail_step' = "engine"
             /\ UNCHANGED engine
    /\ UNCHANGED <<mode, SQL_USER, SQL_PASS, source, changes, num_issues,
                   total_pages, query_number, list_of_issues, requests, df, out,
                   arg, errors, field_list, lookup, sink, writes, result>>

(* DataFrame.to_sql(if_exists='replace', index=True): the table holds the  *)
(* frame with its row index as first column.                               *)
Stored(frame) ==
    [columns |-> <<K("index")>> \o frame.columns,
     data |-> [i \in 1..Len(frame.data) |->
                 <<Scalar(ToString(i - 1))>> \o frame.data[i]]]

(* lines 344-345: the load succeeds, or raises (before or after the old    *)
(* table has been dropped)                                                 *)
ToSql ==
    /\ pc = "to_sql"
    /\ writes' = writes + 1
    /\ \/ /\ sink' = Stored(df)
          /\ pc' = "dispose"
          /\ UNCHANGED fail_step
       \/ /\ sink' \in {sink, [columns |-> Stored(df).columns, data |-> <<>>]}
          /\ pc' = "failed"
          /\ fail_step' = "sink"
    /\ UNCHANGED <<mode, SQL_USER, SQL_PASS, source, changes, num_issues, total_pages, query_number,
                   list_of_issues, requests, df, out, arg, errors, field_list,
                   lookup, engine, result>>

(* line 346 *)
Dispose ==
    /\ pc = "dispose"
    /\ engine' = "disposed"
    /\ pc' = "return"
    /\ UNCHANGED <<mode, SQL_USER, SQL_PASS, source, changes, num_issues, total_pages, query_number,
                   list_of_issues, requests, df, out, arg, errors, field_list,
                   lookup, fail_step, sink, writes, result>>

(* line 351 *)
Return ==
    /\ pc = "return"
    /\ result' = [value |-> TRUE]
    /\ pc' = "done"
    /\ UNCHANGED <<mode, SQL_USER, SQL_PASS, source, changes, num_issues, total_pages, query_number,
                   list_of_issues, requests, df, out, arg, errors, field_list,
                   lookup, fail_step, engine, sink, writes>>

Sources ==
    UNION {[1..n -> TicketShapes] : n \in 0..MaxTickets}

Init ==
    /\ mode = "handler"
    /\ pc = "count"
    /\ \E shapes \in Sources :
          source = [i \in 1..Len(shapes) |-> MakeTicket(shapes[i], ToString(i))]
    /\ df = EmptyFrame
    /\ lookup \in LookupPool
    /\ \E cred \in Credentials : SQL_USER = cred[1] /\ SQL_PASS = cred[2]
    /\ sink = StaleTable
    /\ Idle

Next ==
    \/ CountQuery
    \/ PageRequest
    \/ Normalize
    \/ ExpandTimeToResolution
    \/ ExpandTimeToFirstResponse
    \/ ExpandFirstLineFix
    \/ ExpandGeneralEnquiry
    \/ GetCustomFieldNames
    \/ ApplyCustomFieldNames
    \/ Project
    \/ CreateEngine
    \/ ToSql
    \/ Dispose
    \/ Return

Spec == Init /\ [][Next]_vars

---------------------------------------------------------------------------
(* expand_column exercised on its own (SpecExpand): the input table is the *)
(* top-level normalisation of up to MaxRows tickets that carry a key, an   *)
(* SLA field with completed cycles (column ColA) and a multi-value option  *)
(* field (column ColB); both columns are then expanded, in either order,   *)
(* each call wrapped in try/except as lambda_handler does.                 *)
KeyCol == K("key")
ColA == Fields(<<CF("10101"), K("completedCycles")>>)
ColB == Fields(<<CF("13031")>>)
FieldsA == <<K("breached"), Path(<<K("goalDuration"), K("millis")>>)>>
FieldsB == <<K("value")>>

CycleGoal(b, g) == CycleNoElapsed(b, g)
CycleBare(b) == Obj(<< <<K("breached"), Scalar(b)>> >>)

(* shapes of the SLA field of one ticket *)
ShapesA == {"absent", "scalar", "empty", "two", "last_short", "short"}
CellA(shape) ==
    CASE shape = "scalar" -> Scalar("n/a")
      [] shape = "empty" -> List(<<>>)
      [] shape = "two" -> List(<<CycleGoal("true", "7200"), CycleGoal("false", "100")>>)
      [] shape = "last_short" -> List(<<CycleGoal("true", "7200"), CycleBare("false")>>)
      [] shape = "short" -> List(<<CycleBare("true")>>)

(* shapes of the option field of one ticket *)
ShapesB == {"null", "one"}
CellB(shape) ==
    CASE shape = "null" -> Null
      [] shape = "one" -> List(<<Valued("Yes")>>)

SmallTicket(n, a, b) ==
    Obj(<< <<K("key"), Scalar(ToString(n))>>,
           <<K("fields"),
             Obj((IF a = "absent" THEN <<>>
                  ELSE << <<CF("10101"),
                            Obj(<< <<K("completedCycles"), CellA(a)>> >>)>> >>)
                 \o << <<CF("13031"), CellB(b)>> >>)>> >>)

SmallSources ==
    UNION {[1..n -> ShapesA \X ShapesB] : n \in 0..MaxRows}

ColumnOf(name) == IF name = "A" THEN ColA ELSE ColB
FieldsOf(name) == IF name = "A" THEN FieldsA ELSE FieldsB
Other(name) == IF name = "A" THEN "B" ELSE "A"

(* try: df = expand_column(df, ...) except Exception: print(err) *)
try_expand(frame, column, requested_fields, drop) ==
    LET r == expand_column(frame, column, requested_fields, drop)
    IN IF IsErr(r) THEN frame ELSE r

InitExpand ==
    /\ SQL_USER = Null
    /\ SQL_PASS = Null
    /\ mode = "expand"
    /\ pc = "call"
    /\ \E shapes \in SmallSources :
          /\ source = [i \in 1..Len(shapes) |->
                          SmallTicket(i, shapes[i][1], shapes[i][2])]
          /\ df = json_normalize(source)
    /\ lookup = <<>>
    /\ sink = EmptyFrame
    /\ Idle

(* first call: either column, with or without dropping the original *)
ExpandFirst ==
    /\ mode = "expand"
    /\ pc = "call"
    /\ \E name \in {"A", "B"}, drop \in BOOLEAN :
          /\ arg' = [first |-> name, drop |-> drop]
          /\ out' = expand_column(df, ColumnOf(name), FieldsOf(name), drop)
          /\ errors' = IF IsErr(out') THEN <<ColumnOf(name)>> ELSE <<>>
    /\ pc' = "one"
    /\ UNCHANGED <<mode, SQL_USER, SQL_PASS, source, changes, num_issues, total_pages, query_number,
                   list_of_issues, requests, df, field_list, lookup, fail_step,
                   engine, sink, writes, result>>

(* second call: the other column, on the table the first call left *)
ExpandSecond ==
    /\ mode = "expand"
    /\ pc = "one"
    /\ LET name == Other(arg.first)
           frame == IF IsErr(out) THEN df ELSE out
           r == expand_column(frame, ColumnOf(name), FieldsOf(name), arg.drop)
       IN /\ out' = IF IsErr(r) THEN frame ELSE r
          /\ errors' = IF IsErr(r) THEN Append(errors, ColumnOf(name)) ELSE errors
    /\ pc' = "two"
    /\ UNCHANGED <<mode, SQL_USER, SQL_PASS, source, changes, num_issues, total_pages, query_number,
                   list_of_issues, requests, df, arg, field_list, lookup,
                   fail_step, engine, sink, writes, result>>

NextExpand == ExpandFirst \/ ExpandSecond

SpecExpand == InitExpand /\ [][NextExpand]_vars

---------------------------------------------------------------------------
(* rename_custom_fields exercised on its own (SpecRename): a table with up *)
(* to MaxCols of the columns the normalisation and the expansions produce, *)
(* and the lookup of one of the servers.                                   *)
ColumnPool == {
    K("key"),
    Fields(<<K("summary")>>),
    Fields(<<K("issuetype"), K("name")>>),
    Fields(<<CF("10101"), K("ongoingCycle"), K("breached")>>),
    Fields(<<CF("10101"), K("completedCycles"), K("goalDuration"), K("millis")>>),
    Fields(<<CF("13031"), K("value")>>),
    Fields(<<CF("12985"), K("child"), K("value")>>),
    Fields(<<CF("10420"), K("value")>>),
    Fields(<<CF("12120")>>) }

ColumnLists ==
    {cols \in UNION {[1..n -> ColumnPool] : n \in 0..MaxCols} :
        \A i, j \in 1..Len(cols) : i # j => cols[i] # cols[j]}

InitRename ==
    /\ SQL_USER = Null
    /\ SQL_PASS = Null
    /\ mode = "rename"
    /\ pc = "lookup"
    /\ source = <<>>
    /\ \E cols \in ColumnLists :
          df = [columns |-> cols,
                data |-> << [j \in 1..Len(cols) |-> Scalar(ToString(j))] >>]
    /\ lookup \in RenamePool
    /\ sink = EmptyFrame
    /\ Idle

Rename ==
    /\ mode = "rename"
    /\ pc = "rename"
    /\ out' = rename_custom_fields(df, field_list)
    /\ pc' = "renamed"
    /\ UNCHANGED <<mode, SQL_USER, SQL_PASS, source, changes, num_issues, total_pages, query_number,
                   list_of_issues, requests, df, arg, errors, field_list,
                   lookup, fail_step, engine, sink, writes, result>>

NextRename == GetCustomFieldNames \/ Rename

SpecRename == InitRename /\ [][NextRename]_vars

---------------------------------------------------------------------------
(* Flattener claims (SpecExpand) *)
CellAt(frame, i, column) == frame.data[i][ColIndex(frame, column)]
IsFilledList(cell) == cell.t = "list" /\ Len(cell.l) > 0
CalledColumn == ColumnOf(arg.first)
CalledFields == FieldsOf(arg.first)
Last(seq) == seq[Len(seq)]

\* C3: a successful expand_column call returns as many rows as its input;
\* output row i holds input row i's original columns (the expanded one
\* excepted when it is dropped) and the sub-columns derived from input
\* row i's own cell.
C3_RowsPreservedAndAligned ==
    (mode = "expand" /\ pc = "one" /\ ~IsErr(out)) =>
        /\ Len(out.data) = Len(df.data)
        /\ \A i \in 1..Len(df.data) :
              /\ Len(out.data[i]) = Len(out.columns)
              /\ \A c \in Range(df.columns) :
                    IF arg.drop /\ c = CalledColumn
                    THEN c \notin Range(out.columns)
                    ELSE /\ c \in Range(out.columns)
                         /\ CellAt(out, i, c) = CellAt(df, i, c)
              /\ \A j \in 1..Len(CalledFields) :
                    /\ Sub(CalledColumn, CalledFields[j]) \in Range(out.columns)
                    /\ CellAt(out, i, Sub(CalledColumn, CalledFields[j]))
                         = ExpandCell(CellAt(df, i, CalledColumn), CalledFields).ok[j]

C3_Witness ==
    /\ mode = "expand"
    /\ pc = "one"
    /\ ~IsErr(out)
    /\ arg.first = "A"
    /\ Len(df.data) = 2
    /\ Len(out.data) = 2
    /\ CellAt(df, 1, ColA) = CellA("two")
    /\ CellAt(df, 2, ColA) = CellA("empty")
    /\ CellAt(out, 1, Sub(ColA, K("breached"))) = Scalar("false")
    /\ CellAt(out, 2, Sub(ColA, K("breached"))) = Null

\* C4: for a cell holding k > 0 objects, the call does not raise and the
\* row's new columns are the last object's values for fields_to_keep, None
\* for a requested field the last object lacks (also when no object of the
\* sequence has it).
C4_LastElementProjected ==
    (mode = "expand" /\ pc = "one" /\ CalledColumn \in Range(df.columns)) =>
        \A i \in 1..Len(df.data) :
            IsFilledList(CellAt(df, i, CalledColumn)) =>
                /\ ~IsErr(out)
                /\ \A j \in 1..Len(CalledFields) :
                      CellAt(out, i, Sub(CalledColumn, CalledFields[j]))
                        = ValueAt(FlattenTop(Last(CellAt(df, i, CalledColumn).l).o),
                                  CalledFields[j])

\* C5: for a cell that is an empty sequence, absent (NaN) or not a sequence,
\* the call does not raise and the row's new columns are all None, whatever
\* the other rows hold.
C5_NullRowForNonLists ==
    (mode = "expand" /\ pc = "one" /\ CalledColumn \in Range(df.columns)) =>
        \A i \in 1..Len(df.data) :
            ~IsFilledList(CellAt(df, i, CalledColumn)) =>
                /\ ~IsErr(out)
                /\ \A j \in 1..Len(CalledFields) :
                      CellAt(out, i, Sub(CalledColumn, CalledFields[j])) = Null

(* a table as a mapping from column name to the column's values *)
AsMap(frame) ==
    [c \in Range(frame.columns) |->
        [i \in 1..Len(frame.data) |-> CellAt(frame, i, c)]]

\* C6: expanding the two nested fields in one order gives the same table,
\* column order aside, as expanding them in the other order.
C6_ExpansionsCommute ==
    (mode = "expand" /\ pc = "two") =>
        LET a == arg.first
            b == Other(arg.first)
            swapped == try_expand(
                           try_expand(df, ColumnOf(b), FieldsOf(b), arg.drop),
                           ColumnOf(a), FieldsOf(a), arg.drop)
        IN /\ AsMap(out) = AsMap(swapped)
           /\ Len(out.data) = Len(swapped.data)

C6_Witness ==
    /\ mode = "expand"
    /\ pc = "two"
    /\ errors = <<>>
    /\ arg.first = "B"
    /\ Len(out.data) = 2
    /\ CellAt(df, 1, ColA) = CellA("two")
    /\ CellAt(df, 1, ColB) = CellB("one")
    /\ CellAt(out, 1, Sub(ColA, K("breached"))) = Scalar("false")
    /\ CellAt(out, 1, Sub(ColB, K("value"))) = Scalar("Yes")

---------------------------------------------------------------------------
(* Resolver claim (SpecRename) *)
IsIdAt(column, i) ==
    /\ i + 2 <= Len(column)
    /\ column[i] = "customfield"
    /\ column[i+1] = "_"
    /\ column[i+2] \in DigitRuns
HasIdToken(column) == \E i \in 1..Len(column) : IsIdAt(column, i)
Resolvable(column, fl) ==
    \A i \in 1..Len(column) :
        IsIdAt(column, i) => SubSeq(column, i, i + 2) \in DOMAIN fl

\* C9: every column with a custom-field identifier token becomes the same
\* path with that token, and nothing else, replaced by the identifier's
\* display name; a column without such a token is unchanged; the number and
\* order of the columns (and the data) are preserved.  The call raises
\* exactly when an identifier has no entry in the lookup.
C9_RenameReplacesOnlyTheToken ==
    (mode = "rename" /\ pc = "renamed") =>
        /\ IsErr(out) <=> \E j \in 1..Len(df.columns) :
                              ~Resolvable(df.columns[j], field_list)
        /\ ~IsErr(out) =>
              /\ Len(out.columns) = Len(df.columns)
              /\ out.data = df.data
              /\ \A j \in 1..Len(df.columns) :
                    LET c == df.columns[j]
                    IN IF HasIdToken(c)
                       THEN \E i \in 1..Len(c) :
                               /\ IsIdAt(c, i)
                               /\ out.columns[j] =
                                     SubSeq(c, 1, i - 1)
                                     \o field_list[SubSeq(c, i, i + 2)]
                                     \o SubSeq(c, i + 3, Len(c))
                       ELSE out.columns[j] = c

---------------------------------------------------------------------------
(* Pipeline claims (Spec) *)
Renamed(column) ==
    LET r == RenameColumn(column, get_custom_field_names(LookupFull))
    IN r.ok

(* the selected columns that only an expansion of `column` can produce *)
ProducedBy(column) ==
    {c \in Range(sel_cols) :
        /\ Len(c) > Len(Renamed(column))
        /\ SubSeq(c, 1, Len(Renamed(column)) + 1) = Renamed(column) \o Dot}

\* C7: when the expansion of a nested field raises, the error is caught and
\* the run is not fatal: rename, projection and load still run without that
\* field's columns, so the run never dies in the projection when the only
\* selected columns it lacks are those of the expansions that raised.
C7_ExpansionErrorNotFatal ==
    (mode = "handler" /\ pc = "failed" /\ fail_step = "project"
        /\ errors # <<>>) =>
        \E c \in Range(sel_cols) :
            /\ c \notin Range(df.columns)
            /\ \A k \in 1..Len(errors) : c \notin ProducedBy(errors[k])

\* C8: once the engine has been acquired for the load it is disposed after
\* the load attempt, whether the load succeeded or raised: no run ends with
\* the engine acquired and not released.
C8_EngineAlwaysDisposed ==
    (mode = "handler" /\ pc \in {"done", "failed"}) => engine # "acquired"

(* the table the transformation steps produce from the match set and the  *)
(* server's lookup, or the error that stops them                           *)
Expanded(frame) ==
    try_expand(
        try_expand(
            try_expand(
                try_expand(frame, Fields(<<CF("10101"), K("completedCycles")>>),
                           sla_fields, TRUE),
                Fields(<<CF("10102"), K("completedCycles")>>), sla_fields, TRUE),
            Fields(<<CF("13031")>>), <<K("value")>>, TRUE),
        Fields(<<CF("12120"), K("completedCycles")>>), sla_fields, TRUE)
Transformed ==
    rename_custom_fields(Expanded(json_normalize(source)),
                         get_custom_field_names(lookup))
TransformClean ==
    /\ ~IsErr(Transformed)
    /\ Range(sel_cols) \subseteq Range(Transformed.columns)

\* C10: the table is written at most once, and only after pagination, name
\* resolution and projection all completed: a run in which a source query
\* failed, a column's identifier is missing from the lookup, or a selected
\* column is missing from the table ends in an error with the table
\* untouched.
C10_LoadOnlyAfterCleanTransform ==
    mode = "handler" =>
        /\ writes <= 1
        /\ fail_step \in {"source", "rename", "project"} =>
              /\ pc = "failed"
              /\ writes = 0
              /\ sink = StaleTable
              /\ engine = "none"
        /\ (writes > 0 \/ sink # StaleTable \/ engine # "none") =>
              /\ list_of_issues = source
              /\ field_list = get_custom_field_names(lookup)
              /\ TransformClean
              /\ Len(df.columns) = Len(sel_cols)
              /\ Len(df.data) = Len(source)
        /\ ~TransformClean =>
              /\ writes = 0
              /\ sink = StaleTable
              /\ pc \notin {"engine", "to_sql", "dispose", "return", "done"}

C10_Witness ==
    /\ mode = "handler"
    /\ pc = "failed"
    /\ fail_step = "project"
    /\ Len(list_of_issues) = 2
    /\ field_list = get_custom_field_names(LookupFull)
    /\ writes = 0
    /\ sink = StaleTable

====
